---- MODULE Spec2Model ----
(***************************************************************************)
(* A model of the scan -> parse -> compile -> execute pipeline of the      *)
(* parallelized programming language: Scanner (scanner.rs), PrattParser    *)
(* (parser.rs), BytecodeCompiler (compiler.rs, vm.rs) and the stack VM     *)
(* with its Spawn / Sync / Barrier primitives (vm.rs).                     *)
(***************************************************************************)
EXTENDS Integers, Sequences, FiniteSets, TLC

\* Bound on the number of instructions one run of VM::execute may execute.
MaxSteps == 12

\* Bound on the number of calls of Scanner::next_token on one scanner.
MaxCalls == 12

VARIABLES
    source,          \* the source text handed to parse_expr (a sequence of characters)
    ast,             \* the Expr returned by parse_expr
    parser,          \* the PrattParser when parse_expr returns: its scanner and lookahead
    scanner,         \* a Scanner driven token by token: its state, the last token, the calls
    bytecode,        \* VM.bytecode
    user_functions,  \* VM.user_functions: name -> bytecode address
    stack,           \* VM.stack
    memory,          \* VM.memory: slot -> value
    pc,              \* VM.pc (0-based index into bytecode)
    threads,         \* VM.threads: join handles, as ids of spawned units
    receivers,       \* VM.receivers: receiving channel ends, as ids of spawned units
    units,           \* every thread ever spawned: sampled value, state, channel buffer
    output,          \* the lines printed by the native print function
    status,          \* where the driver is: scanning, source, parsed, running, stopped,
                     \* returned, panicked
    result,          \* the value returned by VM::run
    trace,           \* history: pc and stack depth at every instruction executed in the current run
    round,           \* 1: the run of the program; 2: the run of the program followed by X
    first            \* history: the outcome of round 1

vars == <<source, ast, parser, scanner, bytecode, user_functions, stack, memory, pc, threads,
          receivers, units, output, status, result, trace, round, first>>

(***************************************************************************)
(* f64 values.  A value is a pair <<n, d>>: a reduced fraction n/d with    *)
(* d > 0, or one of the IEEE specials below.  Rounding is not modelled.    *)
(***************************************************************************)
PosZero == <<0, 1>>
NegZero == <<0, -1>>
PosInf == <<1, 0>>
NegInf == <<-1, 0>>
NaN == <<0, 0>>

F(n) == <<n, 1>>

IsNaN(v) == v = NaN
IsInf(v) == v[2] = 0 /\ v[1] # 0
IsZero(v) == v[1] = 0 /\ v[2] # 0

Abs(n) == IF n < 0 THEN -n ELSE n

RECURSIVE Gcd(_, _)
Gcd(a, b) == IF b = 0 THEN a ELSE Gcd(b, a % b)

\* the f64 nearest n/d, d # 0, n # 0: the reduced fraction with positive denominator
Norm(n, d) ==
    LET s == IF d < 0 THEN -1 ELSE 1
        g == Gcd(Abs(n), Abs(d))
    IN  <<(s * n) \div g, (s * d) \div g>>

Sgn(v) ==
    IF v[2] = 0 THEN (IF v[1] < 0 THEN -1 ELSE 1)
    ELSE IF v[1] = 0 THEN v[2]
    ELSE IF v[1] < 0 THEN -1 ELSE 1

FNeg(v) ==
    IF IsNaN(v) THEN NaN
    ELSE IF v[1] = 0 THEN <<0, -v[2]>>
    ELSE <<-v[1], v[2]>>

FAdd(a, b) ==
    IF IsNaN(a) \/ IsNaN(b) THEN NaN
    ELSE IF IsInf(a) /\ IsInf(b) THEN (IF a = b THEN a ELSE NaN)
    ELSE IF IsInf(a) THEN a
    ELSE IF IsInf(b) THEN b
    ELSE IF IsZero(a) /\ IsZero(b) THEN (IF a = NegZero /\ b = NegZero THEN NegZero ELSE PosZero)
    ELSE IF IsZero(a) THEN b
    ELSE IF IsZero(b) THEN a
    ELSE LET n == a[1] * b[2] + b[1] * a[2]
         IN  IF n = 0 THEN PosZero ELSE Norm(n, a[2] * b[2])

FSub(a, b) == FAdd(a, FNeg(b))

FMul(a, b) ==
    LET s == Sgn(a) * Sgn(b) IN
    IF IsNaN(a) \/ IsNaN(b) THEN NaN
    ELSE IF (IsInf(a) /\ IsZero(b)) \/ (IsZero(a) /\ IsInf(b)) THEN NaN
    ELSE IF IsInf(a) \/ IsInf(b) THEN <<s, 0>>
    ELSE IF IsZero(a) \/ IsZero(b) THEN <<0, s>>
    ELSE Norm(a[1] * b[1], a[2] * b[2])

FDiv(a, b) ==
    LET s == Sgn(a) * Sgn(b) IN
    IF IsNaN(a) \/ IsNaN(b) THEN NaN
    ELSE IF (IsInf(a) /\ IsInf(b)) \/ (IsZero(a) /\ IsZero(b)) THEN NaN
    ELSE IF IsInf(a) \/ IsZero(b) THEN <<s, 0>>
    ELSE IF IsInf(b) \/ IsZero(a) THEN <<0, s>>
    ELSE Norm(a[1] * b[2], a[2] * b[1])

\* `top == 0.0`: both zeros compare equal to 0.0, NaN does not
EqZero(v) == IsZero(v)

\* usize::MAX, as far as the model needs it: beyond every instruction index
UsizeMax == 1000000

\* `x as usize`: truncation toward zero, saturating; NaN becomes 0
AsUsize(v) ==
    IF IsNaN(v) \/ IsZero(v) THEN 0
    ELSE IF IsInf(v) THEN (IF v[1] > 0 THEN UsizeMax ELSE 0)
    ELSE IF v[1] < 0 THEN 0
    ELSE v[1] \div v[2]

\* `n as f64` for an instruction index n
AsF64(n) == F(n)

(***************************************************************************)
(* Bytecode instructions (enum Bytecode).                                  *)
(***************************************************************************)
Neg == [op |-> "Neg"]
Add == [op |-> "Add"]
Sub == [op |-> "Sub"]
Mul == [op |-> "Mul"]
Div == [op |-> "Div"]
LoadConst(v) == [op |-> "LoadConst", value |-> v]
LoadVar(i) == [op |-> "LoadVar", index |-> i]
StoreVar(i) == [op |-> "StoreVar", index |-> i]
Spawn == [op |-> "Spawn"]
Sync == [op |-> "Sync"]
Barrier == [op |-> "Barrier"]
Jump(t) == [op |-> "Jump", target |-> t]
JumpIfZero(t) == [op |-> "JumpIfZero", target |-> t]
JumpIfNotZero(t) == [op |-> "JumpIfNotZero", target |-> t]
Pop == [op |-> "Pop"]
Dup == [op |-> "Dup"]
Call(name, argc) == [op |-> "Call", name |-> name, argc |-> argc]
Return == [op |-> "Return"]
Halt == [op |-> "Halt"]

(***************************************************************************)
(* VM::new: the native function table holds print, which writes its        *)
(* arguments on one line and returns 0.0.                                  *)
(***************************************************************************)
native_functions == {"print"}

NativeResult(name, args) == PosZero

NativeOutput(name, args) == [text |-> name, args |-> args]

(***************************************************************************)
(* Helpers of VM::execute.                                                 *)
(***************************************************************************)
Top(s) == s[Len(s)]

Front(s) == SubSeq(s, 1, Len(s) - 1)

\* stack.pop() twice: the stack below the two topmost values
Below2(s) == SubSeq(s, 1, Len(s) - 2)

\* HashMap::insert
Insert(m, k, v) == [x \in DOMAIN m \cup {k} |-> IF x = k THEN v ELSE m[x]]

\* the loop condition of execute, and the instruction it fetches
Running == status = "running" /\ pc < Len(bytecode) /\ Len(trace) < MaxSteps

Cur == bytecode[pc + 1]

\* history: the instruction being executed, with the stack depth it starts from
Logged == Append(trace, [pc |-> pc, depth |-> Len(stack)])

\* a binop! that takes the value popped first as the left operand
ApplySwapped(o, a, b) ==
    CASE o = "Add" -> FAdd(b, a)
      [] o = "Sub" -> FSub(b, a)
      [] o = "Mul" -> FMul(b, a)
      [] o = "Div" -> FDiv(b, a)

\* a $op b
Apply(o, a, b) ==
    CASE o = "Add" -> FAdd(a, b)
      [] o = "Sub" -> FSub(a, b)
      [] o = "Mul" -> FMul(a, b)
      [] o = "Div" -> FDiv(a, b)

\* stackop!: the body's new stack, then pc += 1
Advance(newStack) ==
    /\ stack' = newStack
    /\ pc' = pc + 1
    /\ status' = status

\* panic!: the run aborts with whatever was popped before the fault
Panic(newStack) ==
    /\ stack' = newStack
    /\ pc' = pc
    /\ status' = "panicked"

\* the receiving end of unit i exists: the VM holds it and has not been dropped
ReceiverAlive(i) ==
    /\ status \in {"running", "stopped"}
    /\ \E k \in 1..Len(receivers) : receivers[k] = i

\* a join that never returns
FinishedNever(i) == FALSE

\* thread.join() returns for unit i: its closure has run to its end or panicked
Finished(i) == units[i].st # "spawned"

\* the values the native call pops, in pop order: 0.0 once the stack is empty
PoppedArgs(s, argc) ==
    [j \in 1..argc |-> IF j <= Len(s) THEN s[Len(s) - j + 1] ELSE PosZero]

\* the arguments left in the order they were popped
ReverseOmitted(s) == s

\* args.reverse()
Reverse(s) == [j \in 1..Len(s) |-> s[Len(s) - j + 1]]

\* the stack left by popping argc values
AfterArgs(s, argc) == SubSeq(s, 1, IF argc <= Len(s) THEN Len(s) - argc ELSE 0)

\* Spawn: the value the closure captures
ValueToSpawn(s) == IF s # <<>> THEN Top(s) ELSE PosZero

\* a Sync that pushes the values in the order the units completed
ReceivedInCompletionOrder(rxs, us) ==
    LET got == { i \in 1..Len(us) : us[i].buf # <<>> /\ \E k \in 1..Len(rxs) : rxs[k] = i }
    IN  [k \in 1..Cardinality(got) |->
            us[CHOOSE i \in got : Cardinality({ j \in got : us[j].seq < us[i].seq }) = k - 1].val]

\* Sync: rx.recv() for every receiver in order, pushing each Ok value
Received(rxs, us) ==
    LET got == SelectSeq(rxs, LAMBDA r : us[r].buf # <<>>)
    IN  [k \in 1..Len(got) |-> us[got[k]].buf[1]]

\* Sync: the channels of the drained receivers are consumed and dropped
Drained(rxs, us) ==
    [i \in 1..Len(us) |->
        IF \E k \in 1..Len(rxs) : rxs[k] = i THEN [us[i] EXCEPT !.buf = <<>>] ELSE us[i]]

pipe == <<source, ast, parser, scanner>>
prog == <<bytecode, user_functions>>
runs == <<round, first, result>>

(***************************************************************************)
(* VM::execute: one action per arm of the match, one step of the loop      *)
(* each.                                                                   *)
(***************************************************************************)
ExecNeg ==
    /\ Running /\ Cur.op = "Neg"
    /\ trace' = Logged
    /\ IF stack # <<>>
       THEN Advance(Append(Front(stack), FNeg(Top(stack))))
       ELSE Panic(stack)
    /\ UNCHANGED <<memory, threads, receivers, units, output, pipe, prog, runs>>

\* binop!
Binop(o) ==
    /\ trace' = Logged
    /\ IF Len(stack) >= 2
       THEN Advance(Append(Below2(stack), Apply(o, stack[Len(stack) - 1], Top(stack))))
       ELSE Panic(<<>>)
    /\ UNCHANGED <<memory, threads, receivers, units, output, pipe, prog, runs>>

ExecAdd == Running /\ Cur.op = "Add" /\ Binop("Add")

ExecSub == Running /\ Cur.op = "Sub" /\ Binop("Sub")

ExecMul == Running /\ Cur.op = "Mul" /\ Binop("Mul")

ExecDiv == Running /\ Cur.op = "Div" /\ Binop("Div")

ExecLoadConst ==
    /\ Running /\ Cur.op = "LoadConst"
    /\ trace' = Logged
    /\ Advance(Append(stack, Cur.value))
    /\ UNCHANGED <<memory, threads, receivers, units, output, pipe, prog, runs>>

\* a LoadVar that reads an absent slot as 0.0
ExecLoadVarDefault ==
    /\ Running /\ Cur.op = "LoadVar"
    /\ trace' = Logged
    /\ Advance(Append(stack, IF Cur.index \in DOMAIN memory THEN memory[Cur.index] ELSE PosZero))
    /\ UNCHANGED <<memory, threads, receivers, units, output, pipe, prog, runs>>

ExecLoadVar ==
    /\ Running /\ Cur.op = "LoadVar"
    /\ trace' = Logged
    /\ IF Cur.index \in DOMAIN memory
       THEN Advance(Append(stack, memory[Cur.index]))
       ELSE Panic(stack)
    /\ UNCHANGED <<memory, threads, receivers, units, output, pipe, prog, runs>>

ExecStoreVar ==
    /\ Running /\ Cur.op = "StoreVar"
    /\ trace' = Logged
    /\ IF stack # <<>>
       THEN Advance(Front(stack)) /\ memory' = Insert(memory, Cur.index, Top(stack))
       ELSE Panic(stack) /\ memory' = memory
    /\ UNCHANGED <<threads, receivers, units, output, pipe, prog, runs>>

ExecJump ==
    /\ Running /\ Cur.op = "Jump"
    /\ trace' = Logged
    /\ pc' = Cur.target
    /\ UNCHANGED <<stack, status, memory, threads, receivers, units, output, pipe, prog, runs>>

\* a JumpIfZero that pops the value it inspects
ExecJumpIfZeroPops ==
    /\ Running /\ Cur.op = "JumpIfZero"
    /\ trace' = Logged
    /\ IF stack # <<>>
       THEN /\ pc' = IF EqZero(Top(stack)) THEN Cur.target ELSE pc + 1
            /\ stack' = Front(stack)
            /\ status' = status
       ELSE Panic(stack)
    /\ UNCHANGED <<memory, threads, receivers, units, output, pipe, prog, runs>>

ExecJumpIfZero ==
    /\ Running /\ Cur.op = "JumpIfZero"
    /\ trace' = Logged
    /\ IF stack # <<>>
       THEN /\ pc' = IF EqZero(Top(stack)) THEN Cur.target ELSE pc + 1
            /\ UNCHANGED <<stack, status>>
       ELSE Panic(stack)
    /\ UNCHANGED <<memory, threads, receivers, units, output, pipe, prog, runs>>

ExecJumpIfNotZero ==
    /\ Running /\ Cur.op = "JumpIfNotZero"
    /\ trace' = Logged
    /\ IF stack # <<>>
       THEN /\ pc' = IF ~EqZero(Top(stack)) THEN Cur.target ELSE pc + 1
            /\ UNCHANGED <<stack, status>>
       ELSE Panic(stack)
    /\ UNCHANGED <<memory, threads, receivers, units, output, pipe, prog, runs>>

ExecPop ==
    /\ Running /\ Cur.op = "Pop"
    /\ trace' = Logged
    /\ Advance(Front(stack))
    /\ UNCHANGED <<memory, threads, receivers, units, output, pipe, prog, runs>>

ExecDup ==
    /\ Running /\ Cur.op = "Dup"
    /\ trace' = Logged
    /\ IF stack # <<>>
       THEN Advance(Append(stack, Top(stack)))
       ELSE Panic(stack)
    /\ UNCHANGED <<memory, threads, receivers, units, output, pipe, prog, runs>>

\* Call, first arm: a native function
CallNative(name, argc) ==
    LET args == Reverse(PoppedArgs(stack, argc))
    IN  /\ Advance(Append(AfterArgs(stack, argc), NativeResult(name, args)))
        /\ output' = Append(output, NativeOutput(name, args))

\* a call that pushes the address of the Call itself
CallUserPushesPc(name) ==
    /\ stack' = Append(stack, AsF64(pc))
    /\ pc' = user_functions[name]
    /\ UNCHANGED <<status, output>>

\* Call, second arm: a user function
CallUser(name) ==
    /\ stack' = Append(stack, AsF64(pc + 1))
    /\ pc' = user_functions[name]
    /\ UNCHANGED <<status, output>>

\* an unknown call that aborts the run
CallUnknownFatal == Panic(stack) /\ output' = output

\* Call, third arm: an unknown function
CallUnknown ==
    /\ pc' = pc + 1
    /\ UNCHANGED <<stack, status, output>>

\* a Call that looks the name up among the user functions first
ExecCallUserFirst ==
    /\ Running /\ Cur.op = "Call"
    /\ trace' = Logged
    /\ IF Cur.name \in DOMAIN user_functions THEN CallUser(Cur.name)
       ELSE IF Cur.name \in native_functions THEN CallNative(Cur.name, Cur.argc)
       ELSE CallUnknown
    /\ UNCHANGED <<memory, threads, receivers, units, pipe, prog, runs>>

ExecCall ==
    /\ Running /\ Cur.op = "Call"
    /\ trace' = Logged
    /\ IF Cur.name \in native_functions THEN CallNative(Cur.name, Cur.argc)
       ELSE IF Cur.name \in DOMAIN user_functions THEN CallUser(Cur.name)
       ELSE CallUnknown
    /\ UNCHANGED <<memory, threads, receivers, units, pipe, prog, runs>>

\* a Return that takes the address at the bottom of the stack
ExecReturnOutermost ==
    /\ Running /\ Cur.op = "Return"
    /\ trace' = Logged
    /\ IF Len(stack) >= 2
       THEN /\ pc' = AsUsize(stack[1])
            /\ stack' = Append(Below2(stack), Top(stack))
            /\ status' = status
       ELSE Panic(<<>>)
    /\ UNCHANGED <<memory, threads, receivers, units, output, pipe, prog, runs>>

ExecReturn ==
    /\ Running /\ Cur.op = "Return"
    /\ trace' = Logged
    /\ IF Len(stack) >= 2
       THEN /\ pc' = AsUsize(stack[Len(stack) - 1])
            /\ stack' = Append(Below2(stack), Top(stack))
            /\ status' = status
       ELSE Panic(<<>>)
    /\ UNCHANGED <<memory, threads, receivers, units, output, pipe, prog, runs>>

\* a Halt that is skipped like an unknown call
ExecHaltSkips ==
    /\ Running /\ Cur.op = "Halt"
    /\ pc' = pc + 1
    /\ UNCHANGED <<stack, status, output, trace, memory, threads, receivers, units, pipe, prog, runs>>

ExecHalt ==
    /\ Running /\ Cur.op = "Halt"
    /\ status' = "stopped"
    /\ output' = Append(output, [text |-> "Execution halted", args |-> <<>>])
    /\ UNCHANGED <<stack, pc, trace, memory, threads, receivers, units, pipe, prog, runs>>

\* a Spawn that pops the value it samples
ExecSpawnPops ==
    /\ Running /\ Cur.op = "Spawn"
    /\ trace' = Logged
    /\ receivers' = Append(receivers, Len(units) + 1)
    /\ units' = Append(units, [val |-> ValueToSpawn(stack), st |-> "spawned", buf |-> <<>>, seq |-> 0])
    /\ threads' = Append(threads, Len(units) + 1)
    /\ pc' = pc + 1
    /\ stack' = Front(stack)
    /\ UNCHANGED <<status, memory, output, pipe, prog, runs>>

ExecSpawn ==
    /\ Running /\ Cur.op = "Spawn"
    /\ trace' = Logged
    /\ receivers' = Append(receivers, Len(units) + 1)
    /\ units' = Append(units, [val |-> ValueToSpawn(stack), st |-> "spawned", buf |-> <<>>, seq |-> 0])
    /\ threads' = Append(threads, Len(units) + 1)
    /\ pc' = pc + 1
    /\ UNCHANGED <<stack, status, memory, output, pipe, prog, runs>>

\* a join that returns without waiting
JoinedNoWait(ths, rxs) == TRUE

\* every join of the handles ths returns, and every recv on rxs returns
Joined(ths, rxs) ==
    /\ \A k \in 1..Len(ths) : Finished(ths[k])
    /\ \A k \in 1..Len(rxs) : units[rxs[k]].buf # <<>> \/ Finished(rxs[k])

\* join().unwrap() panics on a unit that panicked
JoinPanics(ths) == \E k \in 1..Len(ths) : units[ths[k]].st = "failed"

\* a Sync that pushes the received values on top of the stack it finds
ExecSyncKeeps ==
    /\ Running /\ Cur.op = "Sync"
    /\ Joined(threads, receivers)
    /\ trace' = Logged
    /\ threads' = <<>>
    /\ IF JoinPanics(threads)
       THEN Panic(<<>>) /\ UNCHANGED <<receivers, units>>
       ELSE /\ Advance(stack \o Received(receivers, units))
            /\ units' = Drained(receivers, units)
            /\ receivers' = <<>>
    /\ UNCHANGED <<memory, output, pipe, prog, runs>>

ExecSync ==
    /\ Running /\ Cur.op = "Sync"
    /\ Joined(threads, receivers)
    /\ trace' = Logged
    /\ threads' = <<>>
    /\ IF JoinPanics(threads)
       THEN Panic(<<>>) /\ UNCHANGED <<receivers, units>>
       ELSE /\ Advance(Received(receivers, units))
            /\ units' = Drained(receivers, units)
            /\ receivers' = <<>>
    /\ UNCHANGED <<memory, output, pipe, prog, runs>>

ExecBarrier ==
    /\ Running /\ Cur.op = "Barrier"
    /\ Joined(threads, <<>>)
    /\ trace' = Logged
    /\ threads' = <<>>
    /\ IF JoinPanics(threads)
       THEN Panic(stack)
       ELSE Advance(stack)
    /\ UNCHANGED <<memory, receivers, units, output, pipe, prog, runs>>

\* a loop that faults on a pc past the last instruction
LoopExitFaults ==
    /\ status = "running" /\ pc >= Len(bytecode)
    /\ status' = "panicked"
    /\ UNCHANGED <<stack, pc, trace, memory, threads, receivers, units, output, pipe, prog, runs>>

\* the loop condition of execute fails: pc is past the last instruction
LoopExit ==
    /\ status = "running" /\ pc >= Len(bytecode)
    /\ status' = "stopped"
    /\ UNCHANGED <<stack, pc, trace, memory, threads, receivers, units, output, pipe, prog, runs>>

\* a run that returns the bottom of the stack
RunReturnBottom ==
    /\ status = "stopped"
    /\ result' = IF stack # <<>> THEN stack[1] ELSE PosZero
    /\ stack' = Front(stack)
    /\ status' = "returned"
    /\ UNCHANGED <<pc, trace, memory, threads, receivers, units, output, pipe, prog, round, first>>

\* VM::run after execute: pop the result, drop the VM
RunReturn ==
    /\ status = "stopped"
    /\ result' = IF stack # <<>> THEN Top(stack) ELSE PosZero
    /\ stack' = Front(stack)
    /\ status' = "returned"
    /\ UNCHANGED <<pc, trace, memory, threads, receivers, units, output, pipe, prog, round, first>>

\* history: the number of closures that have run so far
Completions == Cardinality({ j \in 1..Len(units) : units[j].st # "spawned" })

\* a closure that sends a value it reads when it runs
UnitSendRacy(i) ==
    /\ units[i].st = "spawned"
    /\ units' = IF ReceiverAlive(i)
                THEN [units EXCEPT ![i].buf = <<F(Completions)>>, ![i].st = "sent",
                                   ![i].seq = Completions + 1]
                ELSE [units EXCEPT ![i].st = "failed", ![i].seq = Completions + 1]
    /\ UNCHANGED <<stack, pc, status, trace, memory, threads, receivers, output, pipe, prog, runs>>

\* the closure of a spawned thread: tx.send(value_to_spawn).unwrap()
UnitSend(i) ==
    /\ units[i].st = "spawned"
    /\ units' = IF ReceiverAlive(i)
                THEN [units EXCEPT ![i].buf = <<units[i].val>>, ![i].st = "sent",
                                   ![i].seq = Completions + 1]
                ELSE [units EXCEPT ![i].st = "failed", ![i].seq = Completions + 1]
    /\ UNCHANGED <<stack, pc, status, trace, memory, threads, receivers, output, pipe, prog, runs>>

(***************************************************************************)
(* Scanner (scanner.rs).  The input is a sequence of one-character         *)
(* strings; a scanner is its byte offset pos and its current character,    *)
(* None at the end of the input.                                           *)
(***************************************************************************)
None == ""

Digits == {"0", "1", "2", "3", "4", "5", "6", "7", "8", "9"}

DigitValue(c) ==
    CASE c = "0" -> 0 [] c = "1" -> 1 [] c = "2" -> 2 [] c = "3" -> 3 [] c = "4" -> 4
      [] c = "5" -> 5 [] c = "6" -> 6 [] c = "7" -> 7 [] c = "8" -> 8 [] c = "9" -> 9

\* the ASCII letters the inputs use
Letters == {"a", "b", "c", "e", "f", "i", "j", "m", "n", "o", "p", "r", "s", "t", "u", "w", "x", "y", "z"}

Whitespace == {" ", "\n", "\t"}

IsIdentStart(c) == c \in Letters \/ c = "_"

IsIdentChar(c) == c \in Letters \/ c \in Digits \/ c = "_"

\* Scanner::peek: the character at pos
peek(inp, sc) == IF sc.pos < Len(inp) THEN inp[sc.pos + 1] ELSE None

\* Scanner::bump: current becomes the character at pos, and pos moves past it
bump(inp, sc) ==
    IF sc.pos < Len(inp)
    THEN [pos |-> sc.pos + 1, current |-> inp[sc.pos + 1]]
    ELSE [pos |-> sc.pos, current |-> None]

\* Scanner::new
NewScanner(inp) == bump(inp, [pos |-> 0, current |-> None])

RECURSIVE SkipLine(_, _)
SkipLine(inp, sc) ==
    IF sc.current # "\n" /\ sc.current # None THEN SkipLine(inp, bump(inp, sc)) ELSE sc

RECURSIVE skip_whitespace_and_comments(_, _)
skip_whitespace_and_comments(inp, sc) ==
    IF sc.current \in Whitespace THEN skip_whitespace_and_comments(inp, bump(inp, sc))
    ELSE IF sc.current = "/" /\ peek(inp, sc) = "/"
         THEN skip_whitespace_and_comments(inp, SkipLine(inp, sc))
         ELSE sc

\* is_ascii_digit, or is_alphanumeric || '_'
InClass(class, c) == IF class = "digit" THEN c \in Digits ELSE IsIdentChar(c)

\* the maximal run of characters of the class from the current one: its text, its
\* digits' value and scale, and the scanner after it
RECURSIVE TakeRun(_, _, _, _)
TakeRun(inp, sc, class, acc) ==
    IF sc.current # None /\ InClass(class, sc.current)
    THEN TakeRun(inp, bump(inp, sc), class,
                 [text |-> acc.text \o sc.current,
                  value |-> IF sc.current \in Digits
                            THEN 10 * acc.value + DigitValue(sc.current) ELSE 0,
                  scale |-> 10 * acc.scale,
                  sc |-> sc])
    ELSE [acc EXCEPT !.sc = sc]

EmptyRun == [text |-> "", value |-> 0, scale |-> 1, sc |-> [pos |-> 0, current |-> None]]

Tok(t) == [t |-> t]

Eof == Tok("Eof")

\* identifier_or_keyword: the token for the run of identifier characters
KeywordOrIdentifier(run) ==
    [ok |-> TRUE,
     tok |-> CASE run.text = "spawn" -> Tok("KeywordSpawn")
               [] run.text = "sync" -> Tok("KeywordSync")
               [] run.text = "barrier" -> Tok("KeywordBarrier")
               [] run.text = "jump" -> Tok("KeywordJump")
               [] run.text = "jz" -> Tok("KeywordJz")
               [] run.text = "jnz" -> Tok("KeywordJnz")
               [] OTHER -> [t |-> "Identifier", name |-> run.text],
     sc |-> run.sc]

\* Scanner::identifier_or_keyword
identifier_or_keyword(inp, sc) == KeywordOrIdentifier(TakeRun(inp, sc, "ident", EmptyRun))

\* num_str.parse::<f64>() of whole digits and fraction digits
ParseF64(whole, frac) ==
    IF whole.value = 0 /\ frac.value = 0 THEN PosZero
    ELSE Norm(whole.value * frac.scale + frac.value, frac.scale)

\* number: the token once both runs of digits are consumed
NumberToken(whole, frac) ==
    [ok |-> TRUE, tok |-> [t |-> "Number", n |-> ParseF64(whole, frac)], sc |-> frac.sc]

\* number: the fractional part, consumed only when a digit follows the point
Fraction(inp, whole) ==
    IF whole.sc.current = "." /\ peek(inp, whole.sc) \in Digits
    THEN TakeRun(inp, bump(inp, whole.sc), "digit", EmptyRun)
    ELSE [EmptyRun EXCEPT !.sc = whole.sc]

NumberAfter(inp, whole) == NumberToken(whole, Fraction(inp, whole))

\* Scanner::number
number(inp, sc) == NumberAfter(inp, TakeRun(inp, sc, "digit", EmptyRun))

\* the one-character tokens of next_token
Punctuation(c) ==
    CASE c = "+" -> "Plus" [] c = "-" -> "Minus" [] c = "*" -> "Star" [] c = "/" -> "Slash"
      [] c = "=" -> "Assign" [] c = ";" -> "Semicolon" [] c = "(" -> "LParen"
      [] c = ")" -> "RParen" [] OTHER -> "Unexpected"

\* a next_token that moves the position on at the end of the input
ScanTokenAdvancing(inp, sc) ==
    IF sc.current = None THEN [ok |-> TRUE, tok |-> Eof, sc |-> [sc EXCEPT !.pos = sc.pos + 1]]
    ELSE IF IsIdentStart(sc.current) THEN identifier_or_keyword(inp, sc)
    ELSE IF sc.current \in Digits THEN number(inp, sc)
    ELSE IF Punctuation(sc.current) # "Unexpected"
         THEN [ok |-> TRUE, tok |-> Tok(Punctuation(sc.current)), sc |-> bump(inp, sc)]
         ELSE [ok |-> FALSE, tok |-> Eof, sc |-> sc]

\* the match of next_token on the current character; ok is FALSE when it panics
\* on an unexpected character
ScanToken(inp, sc) ==
    IF sc.current = None THEN [ok |-> TRUE, tok |-> Eof, sc |-> sc]
    ELSE IF IsIdentStart(sc.current) THEN identifier_or_keyword(inp, sc)
    ELSE IF sc.current \in Digits THEN number(inp, sc)
    ELSE IF Punctuation(sc.current) # "Unexpected"
         THEN [ok |-> TRUE, tok |-> Tok(Punctuation(sc.current)), sc |-> bump(inp, sc)]
         ELSE [ok |-> FALSE, tok |-> Eof, sc |-> sc]

\* Scanner::next_token: the token and the scanner after it
next_token(inp, sc) == ScanToken(inp, skip_whitespace_and_comments(inp, sc))

(***************************************************************************)
(* PrattParser (parser.rs).  A parser is its scanner and its one token of  *)
(* lookahead, current.  Every parsing operator returns ok (FALSE when the  *)
(* code panics), the Expr e and the parser after it.                       *)
(***************************************************************************)
NoExpr == [t |-> "None"]

Number(n) == [t |-> "Number", n |-> n]
Ident(name) == [t |-> "Ident", name |-> name]
UnaryOp(op, rhs) == [t |-> "UnaryOp", op |-> op, rhs |-> rhs]
BinaryOp(lhs, op, rhs) == [t |-> "BinaryOp", lhs |-> lhs, op |-> op, rhs |-> rhs]
CallExpr(name, args) == [t |-> "Call", name |-> name, args |-> args]

Parsed(e, ps) == [ok |-> TRUE, e |-> e, ps |-> ps]

Failed(ps) == [ok |-> FALSE, e |-> NoExpr, ps |-> ps]

\* advance: the parser with the scanned token as its lookahead
Advanced(r) == [ok |-> r.ok, e |-> NoExpr, ps |-> [sc |-> r.sc, current |-> r.tok]]

\* PrattParser::advance
advance(inp, ps) == Advanced(next_token(inp, ps.sc))

\* PrattParser::new
NewParser(inp) == advance(inp, [sc |-> NewScanner(inp), current |-> Eof])

\* the binding power nud parses the operand of a unary minus at
UnaryBp == 100

\* PrattParser::lbp
lbp(token) ==
    CASE token.t \in {"Plus", "Minus"} -> 10
      [] token.t \in {"Star", "Slash"} -> 20
      [] OTHER -> 0

\* led: the binding power the right operand of op is parsed at
rbp(op) == lbp(op)

\* expr: the loop stops at a lookahead that binds weaker than min_bp
Stops(token, min_bp) == lbp(token) < min_bp

RECURSIVE expr(_, _, _), ExprLoop(_, _, _, _), LoopLed(_, _, _, _, _), LoopNext(_, _, _),
          nud(_, _), NudAfter(_, _, _), NudOperand(_, _, _), led(_, _, _, _),
          parse_call(_, _, _), CallFrom(_, _, _), CallArgs(_, _, _),
          ArgNext(_, _, _), ArgComma(_, _, _)

\* nud, ( arm: the token after the inner expression has been consumed
CloseParen(e, c) == IF c.ok THEN Parsed(e, c.ps) ELSE c

\* nud, - and ( arms: after the operand or inner expression r
NudOperand(inp, cur, r) ==
    IF ~r.ok THEN r
    ELSE IF cur.t = "Minus" THEN Parsed(UnaryOp("Minus", r.e), r.ps)
    ELSE IF r.ps.current.t # "RParen" THEN Failed(r.ps)
    ELSE CloseParen(r.e, advance(inp, r.ps))

\* a nud that parses the operand of a unary minus at binding power 0
NudAfterLoose(inp, cur, a) ==
    IF ~a.ok THEN a
    ELSE IF cur.t = "Number" THEN Parsed(Number(cur.n), a.ps)
    ELSE IF cur.t = "Identifier"
         THEN IF a.ps.current.t = "LParen"
              THEN parse_call(inp, a.ps, cur.name)
              ELSE Parsed(Ident(cur.name), a.ps)
    ELSE NudOperand(inp, cur, expr(inp, a.ps, 0))

\* nud after the advance that every arm begins with
NudAfter(inp, cur, a) ==
    IF ~a.ok THEN a
    ELSE IF cur.t = "Number" THEN Parsed(Number(cur.n), a.ps)
    ELSE IF cur.t = "Identifier"
         THEN IF a.ps.current.t = "LParen"
              THEN parse_call(inp, a.ps, cur.name)
              ELSE Parsed(Ident(cur.name), a.ps)
    ELSE NudOperand(inp, cur, expr(inp, a.ps, IF cur.t = "Minus" THEN UnaryBp ELSE 0))

\* PrattParser::nud; the scanner yields no fn keyword, so that arm is not reached
nud(inp, ps) ==
    IF ps.current.t \in {"Number", "Identifier", "Minus", "LParen"}
    THEN NudAfter(inp, ps.current, advance(inp, ps))
    ELSE Failed(ps)

\* led, binary arm: the node once the right operand r is parsed
LedBinary(lhs, token, r) ==
    IF r.ok THEN Parsed(BinaryOp(lhs, token.t, r.e), r.ps) ELSE r

\* PrattParser::led, entered after the operator token has been consumed
led(inp, ps, lhs, token) ==
    IF token.t \in {"Plus", "Minus", "Star", "Slash"}
    THEN LedBinary(lhs, token, expr(inp, ps, rbp(token)))
    ELSE IF token.t \in {"RParen", "Eof"} THEN Parsed(lhs, ps)
    ELSE Failed(ps)

\* the loop of expr: lhs becomes the result r of led
LoopNext(inp, r, min_bp) ==
    IF r.ok THEN ExprLoop(inp, r.ps, r.e, min_bp) ELSE r

\* the loop of expr: op has been consumed by the advance a
LoopLed(inp, lhs, op, a, min_bp) ==
    IF a.ok THEN LoopNext(inp, led(inp, a.ps, lhs, op), min_bp) ELSE a

\* the loop of PrattParser::expr
ExprLoop(inp, ps, lhs, min_bp) ==
    IF ps.current.t \in {"Eof", "RParen"} THEN Parsed(lhs, ps)
    ELSE IF Stops(ps.current, min_bp) THEN Parsed(lhs, ps)
    ELSE LoopLed(inp, lhs, ps.current, advance(inp, ps), min_bp)

\* expr after its call of nud
ExprAfter(inp, l, min_bp) ==
    IF l.ok THEN ExprLoop(inp, l.ps, l.e, min_bp) ELSE l

\* PrattParser::expr
expr(inp, ps, min_bp) == ExprAfter(inp, nud(inp, ps), min_bp)

\* parse_call: the argument loop after a comma has been consumed
ArgComma(inp, args, a) ==
    IF a.ok THEN CallArgs(inp, a.ps, args) ELSE [ok |-> FALSE, args |-> args, ps |-> a.ps]

\* parse_call: the argument loop after the argument r
ArgNext(inp, args, r) ==
    IF ~r.ok THEN [ok |-> FALSE, args |-> args, ps |-> r.ps]
    ELSE IF r.ps.current.t # "Comma" THEN [ok |-> TRUE, args |-> Append(args, r.e), ps |-> r.ps]
    ELSE ArgComma(inp, Append(args, r.e), advance(inp, r.ps))

\* the argument loop of parse_call: ok, the arguments and the parser after them
CallArgs(inp, ps, args) ==
    IF ps.current.t \in {"RParen", "Eof"} THEN [ok |-> TRUE, args |-> args, ps |-> ps]
    ELSE ArgNext(inp, args, expr(inp, ps, 0))

\* parse_call: the token after the closing ) has been scanned
CallDone(name, args, c) == IF c.ok THEN Parsed(CallExpr(name, args), c.ps) ELSE c

\* parse_call after the argument loop l
CallClose(inp, name, l) ==
    IF ~l.ok THEN Failed(l.ps)
    ELSE IF l.ps.current.t # "RParen" THEN Failed(l.ps)
    ELSE CallDone(name, l.args, advance(inp, l.ps))

\* parse_call after its first advance a
CallFrom(inp, name, a) ==
    IF a.ok THEN CallClose(inp, name, CallArgs(inp, a.ps, <<>>)) ELSE a

\* PrattParser::parse_call, entered with the ( as lookahead
parse_call(inp, ps, name) == CallFrom(inp, name, advance(inp, ps))

\* parse_expr after PrattParser::new
ParseFrom(inp, p) == IF p.ok THEN expr(inp, p.ps, 0) ELSE p

\* parse_expr (lib.rs)
parse_expr(inp) == ParseFrom(inp, NewParser(inp))

(***************************************************************************)
(* BytecodeCompiler (compiler.rs) and Bytecode::compile_expr (vm.rs): ok   *)
(* is FALSE when the code panics.                                          *)
(***************************************************************************)
\* a compile_expr that emits Neg for every binary operator
BinaryInstrNeg(op) == Neg

BinaryInstr(op) ==
    CASE op = "Plus" -> Add [] op = "Minus" -> Sub [] op = "Star" -> Mul [] op = "Slash" -> Div

RECURSIVE compile_expr(_), CompileArgs(_, _)

compile_expr(e) ==
    CASE e.t = "Number" -> [ok |-> TRUE, code |-> <<LoadConst(e.n)>>]
      [] e.t = "Ident" -> [ok |-> FALSE, code |-> <<>>]
      [] e.t = "UnaryOp" ->
           LET r == compile_expr(e.rhs)
           IN  IF r.ok /\ e.op = "Minus"
               THEN [ok |-> TRUE, code |-> Append(r.code, Neg)]
               ELSE [ok |-> FALSE, code |-> r.code]
      [] e.t = "BinaryOp" ->
           LET l == compile_expr(e.lhs)
               r == compile_expr(e.rhs)
           IN  IF l.ok /\ r.ok /\ e.op \in {"Plus", "Minus", "Star", "Slash"}
               THEN [ok |-> TRUE, code |-> Append(l.code \o r.code, BinaryInstr(e.op))]
               ELSE [ok |-> FALSE, code |-> <<>>]
      [] e.t = "Call" ->
           LET a == CompileArgs(e.args, 1)
           IN  IF a.ok
               THEN [ok |-> TRUE, code |-> Append(a.code, Call(e.name, Len(e.args)))]
               ELSE a
      [] OTHER -> [ok |-> TRUE, code |-> <<>>]

\* the loop over the arguments of a Call, from argument k
CompileArgs(args, k) ==
    IF k > Len(args) THEN [ok |-> TRUE, code |-> <<>>]
    ELSE LET h == compile_expr(args[k])
             r == CompileArgs(args, k + 1)
         IN  IF h.ok /\ r.ok THEN [ok |-> TRUE, code |-> h.code \o r.code]
             ELSE [ok |-> FALSE, code |-> <<>>]

\* a compile that leaves the Halt out
compileWithoutHalt(e) == [ok |-> compile_expr(e).ok, code |-> compile_expr(e).code]

\* BytecodeCompiler::compile
compile(e) ==
    LET r == compile_expr(e)
    IN  [ok |-> r.ok, code |-> Append(r.code, Halt)]

(***************************************************************************)
(* The inputs: hand-assembled programs with their registered user          *)
(* functions (the programs of the tests of vm.rs and lib.rs, and programs  *)
(* that reach every arm of execute), and the sequences X appended to them. *)
(***************************************************************************)
NoFuncs == <<>>

Asm(code, funcs) == [code |-> code, funcs |-> funcs]

TestPrograms ==
    { Asm(<<LoadConst(F(2)), LoadConst(F(3)), Add, Halt>>, NoFuncs),
      Asm(<<LoadConst(F(10)), LoadConst(F(4)), Sub, Halt>>, NoFuncs),
      Asm(<<LoadConst(F(6)), LoadConst(F(7)), Mul, Halt>>, NoFuncs),
      Asm(<<LoadConst(F(20)), LoadConst(F(4)), Div, Halt>>, NoFuncs),
      Asm(<<LoadConst(F(99)), StoreVar(1), LoadVar(1), Halt>>, NoFuncs),
      Asm(<<LoadConst(F(1)), Jump(4), LoadConst(F(2)), LoadConst(F(3)), LoadConst(F(4)), Halt>>, NoFuncs),
      Asm(<<LoadConst(F(0)), JumpIfZero(4), LoadConst(F(99)), LoadConst(F(88)), LoadConst(F(42)), Halt>>, NoFuncs),
      Asm(<<LoadConst(F(5)), JumpIfNotZero(4), LoadConst(F(99)), LoadConst(F(88)), LoadConst(F(42)), Halt>>, NoFuncs),
      Asm(<<LoadConst(F(7)), Dup, Add, Pop, Halt>>, NoFuncs),
      Asm(<<LoadConst(F(2)), LoadConst(F(3)), Add, Spawn, Sync, Halt>>, NoFuncs),
      Asm(<<LoadVar(999), Halt>>, NoFuncs),
      Asm(<<Add, Halt>>, NoFuncs),
      Asm(<<LoadConst(F(5)), Neg, Halt>>, NoFuncs),
      Asm(<<LoadConst(F(10)), Spawn, Barrier, Pop, Halt>>, NoFuncs),
      Asm(<<LoadConst(F(4)), LoadConst(F(1)), Add, Spawn, Spawn, Sync, Halt>>, NoFuncs),
      Asm(<<LoadConst(F(42)), Call("print", 1), Halt>>, NoFuncs),
      Asm(<<LoadConst(F(10)), StoreVar(0), Call("add1", 1), Halt,
            LoadVar(0), LoadConst(F(1)), Add, Return>>, "add1" :> 4) }

ArmPrograms ==
    { Asm(<<>>, NoFuncs),
      Asm(<<LoadConst(F(3))>>, NoFuncs),
      Asm(<<Neg, Halt>>, NoFuncs),
      Asm(<<LoadConst(F(4)), StoreVar(0), LoadConst(F(6)), LoadVar(1), Halt>>, NoFuncs),
      Asm(<<LoadConst(F(1)), Sub, Halt>>, NoFuncs),
      Asm(<<Mul, Halt>>, NoFuncs),
      Asm(<<LoadConst(F(1)), Div, Halt>>, NoFuncs),
      Asm(<<LoadConst(F(1)), LoadConst(F(0)), Div, Neg, Halt>>, NoFuncs),
      Asm(<<StoreVar(0), Halt>>, NoFuncs),
      Asm(<<Dup, Halt>>, NoFuncs),
      Asm(<<Pop, Halt>>, NoFuncs),
      Asm(<<JumpIfZero(1), Halt>>, NoFuncs),
      Asm(<<JumpIfNotZero(1), Halt>>, NoFuncs),
      Asm(<<LoadConst(F(0)), JumpIfNotZero(3), LoadConst(F(8)), Halt>>, NoFuncs),
      Asm(<<LoadConst(F(5)), JumpIfZero(3), LoadConst(F(8)), Halt>>, NoFuncs),
      Asm(<<LoadConst(F(2)), LoadConst(F(1)), Sub, JumpIfNotZero(1), Halt>>, NoFuncs),
      Asm(<<LoadConst(F(1)), Jump(3), Halt>>, NoFuncs),
      Asm(<<LoadConst(F(0)), Neg, JumpIfZero(4), LoadConst(F(8)), Halt>>, NoFuncs),
      Asm(<<LoadConst(F(0)), LoadConst(F(0)), Div, JumpIfNotZero(5), LoadConst(F(8)), Halt>>, NoFuncs),
      Asm(<<LoadConst(F(5)), Spawn, LoadConst(F(3)), Add, Sync, Halt>>, NoFuncs),
      Asm(<<Return, Halt>>, NoFuncs),
      Asm(<<LoadConst(F(1)), Return, Halt>>, NoFuncs),
      Asm(<<LoadConst(F(9)), LoadConst(F(5)), Return, Halt>>, NoFuncs),
      Asm(<<LoadConst(F(-1)), LoadConst(F(5)), Return, Halt>>, NoFuncs),
      Asm(<<LoadConst(F(1)), Call("nope", 1), Halt>>, NoFuncs),
      Asm(<<LoadConst(F(1)), Call("far", 0), Halt>>, "far" :> 7),
      Asm(<<Call("f", 0), Halt, Call("g", 0), Return, Call("h", 0), Return, LoadConst(F(1)), Return>>,
          ("f" :> 2) @@ ("g" :> 4) @@ ("h" :> 6)),
      Asm(<<LoadConst(F(5)), Call("print", 2), Halt>>, NoFuncs),
      Asm(<<LoadConst(F(1)), LoadConst(F(2)), LoadConst(F(3)), Call("print", 2), Halt>>, NoFuncs),
      Asm(<<LoadConst(F(1)), Call("print", 1), Halt, LoadConst(F(9)), Return>>, "print" :> 3),
      Asm(<<Call("f", 0), Halt, Call("g", 0), LoadConst(F(1)), Add, Return,
            LoadConst(F(5)), Return>>, ("f" :> 2) @@ ("g" :> 6)),
      Asm(<<Spawn, Sync, Halt>>, NoFuncs),
      Asm(<<LoadConst(F(1)), LoadConst(F(2)), Sync, Halt>>, NoFuncs),
      Asm(<<LoadConst(F(1)), Spawn, Halt>>, NoFuncs),
      Asm(<<LoadConst(F(3)), Spawn, Barrier, Sync, Halt>>, NoFuncs),
      Asm(<<LoadConst(F(10)), Spawn, Barrier, LoadConst(F(7)), Spawn, Sync, Halt>>, NoFuncs),
      Asm(<<LoadConst(F(1)), Spawn, LoadConst(F(2)), Spawn, Pop, StoreVar(0), Sync, Halt>>, NoFuncs) }

Programs == TestPrograms \cup ArmPrograms

Extensions == { <<>>, <<LoadConst(F(99))>>, <<Pop, LoadConst(F(98)), Halt>> }

\* history: no run has ended yet
NoRun == [status |-> "none", result |-> PosZero, stayed |-> FALSE,
          pcs |-> <<>>, stack |-> <<>>, memory |-> <<>>, len |-> 0]

\* no parser and no scanner have been constructed yet
NoParser == [sc |-> [pos |-> 0, current |-> None], current |-> Tok("None")]

NoScanner == [sc |-> [pos |-> 0, current |-> None], tok |-> Tok("None"), calls |-> 0]

\* VM::new(code), then user_functions.insert for every registered function
InitAsm(p) ==
    /\ source = <<>>
    /\ ast = NoExpr
    /\ parser = NoParser
    /\ scanner = NoScanner
    /\ bytecode = p.code
    /\ user_functions = p.funcs
    /\ stack = <<>>
    /\ memory = <<>>
    /\ pc = 0
    /\ threads = <<>>
    /\ receivers = <<>>
    /\ units = <<>>
    /\ output = <<>>
    /\ status = "running"
    /\ result = PosZero
    /\ trace = <<>>
    /\ round = 1
    /\ first = NoRun

Operators == {"+", "-", "*", "/"}

\* chains of two and three binary operators, with and without a unary minus and
\* parentheses
ArithmeticSources ==
    { <<"8", o1, "4", o2, "2">> : o1 \in Operators, o2 \in Operators }
    \cup { <<"8", o1, "4", o2, "2", o3, "3">> :
             o1 \in {"-", "/"}, o2 \in Operators, o3 \in Operators }
    \cup { <<"(", "8", o1, "4", ")", o2, "2">> : o1 \in Operators, o2 \in Operators }
    \cup { <<"8", o1, "(", "4", o2, "2", ")">> : o1 \in Operators, o2 \in Operators }
    \cup { <<"-", "8", o1, "4">> : o1 \in Operators }
    \cup { <<"8", o1, "-", "4">> : o1 \in Operators }
    \cup { <<"-", "(", "8", o1, "4", ")">> : o1 \in Operators }
    \cup { <<"8", o1, "-", "4", o2, "2">> : o1 \in Operators, o2 \in Operators }

\* the sources of the tests of lib.rs and parser.rs
TestSources ==
    { <<"1", "0", " ", "-", " ", "4">>,
      <<"1", " ", "+", " ", "2", " ", "*", " ", "(", "3", " ", "-", " ", "4", ")">>,
      <<"7", " ", "*", " ", "(", "8", " ", "+", " ", "9", ")", " ", "-", " ", "3">>,
      <<"-", "1", " ", "+", " ", "5">>,
      <<"1", "+", "2", "*", "3", "-", "4", "/", "2">>,
      <<"p", "r", "i", "n", "t", "(", "1", "2", "3", ")">>,
      <<"4", "2">>,
      <<"f", "o", "o">>,
      <<"-", "5", "+", "2">> }

\* sources that are not one well-formed arithmetic expression, or that use the
\* rest of the lexical surface
EdgeSources ==
    { <<>>,
      <<"1", " ", "2">>,
      <<"1", " ", "x">>,
      <<"1", "=", "2">>,
      <<"1", ";">>,
      <<"(", "1">>,
      <<"(", "1", "+", "2">>,
      <<")">>,
      <<"*", "2">>,
      <<"1", ")">>,
      <<"1", ")", "@">>,
      <<"@">>,
      <<"1", "@">>,
      <<"1", "+">>,
      <<"1", ".", "5", "*", "2">>,
      <<"3", ".">>,
      <<"8", "/", "(", "4", "-", "4", ")">>,
      <<"4", "2", " ", "/", "/", "c", "\n", " ", "+", "7", "\t">>,
      <<"f", "(", ")">>,
      <<"f", "(", "1", ",", "2", ")">>,
      <<"f", "(", "7", ")">>,
      <<"f", "(", "1", " ", "2", ")">>,
      <<"p", "r", "i", "n", "t", "(", "1", "+", "2", ")">>,
      <<"s", "p", "a", "w", "n">> }

Sources == ArithmeticSources \cup TestSources \cup EdgeSources

\* the sources of the scanner tests
ScanSources ==
    { <<"f", "o", "o", " ", "=", " ", "4", "2", ";", " ", "/", "/", " ", "c", "\n", " ",
        "s", "p", "a", "w", "n">>,
      <<"(", "1", "+", "2", ")", "*", "3", " ", "-", " ", "j", "z", " ", "1", "0", "0", ";">>,
      <<"3", ".", "1", "4">>,
      <<" ", " ", "/", "/", " ", "c", "\n", " ", "4", "2">>,
      <<"s", "y", "n", "c", " ", "b", "a", "r", "r", "i", "e", "r", " ", "j", "u", "m", "p", " ",
        "j", "n", "z">> }

\* run_code_with_preprocessing (main.rs) and the pipeline tests of lib.rs: the
\* source text before parse_expr
InitSource(src) ==
    /\ source = src
    /\ ast = NoExpr
    /\ parser = NoParser
    /\ scanner = NoScanner
    /\ bytecode = <<>>
    /\ user_functions = NoFuncs
    /\ stack = <<>>
    /\ memory = <<>>
    /\ pc = 0
    /\ threads = <<>>
    /\ receivers = <<>>
    /\ units = <<>>
    /\ output = <<>>
    /\ status = "source"
    /\ result = PosZero
    /\ trace = <<>>
    /\ round = 1
    /\ first = NoRun

\* Scanner::new(source), as the scanner tests of lib.rs and scanner.rs drive it
InitScan(src) ==
    /\ source = src
    /\ ast = NoExpr
    /\ parser = NoParser
    /\ scanner = [sc |-> NewScanner(src), tok |-> Tok("None"), calls |-> 0]
    /\ bytecode = <<>>
    /\ user_functions = NoFuncs
    /\ stack = <<>>
    /\ memory = <<>>
    /\ pc = 0
    /\ threads = <<>>
    /\ receivers = <<>>
    /\ units = <<>>
    /\ output = <<>>
    /\ status = "scanning"
    /\ result = PosZero
    /\ trace = <<>>
    /\ round = 1
    /\ first = NoRun

Init ==
    \/ \E p \in Programs : InitAsm(p)
    \/ \E src \in Sources : InitSource(src)
    \/ \E src \in Sources \cup ScanSources : InitScan(src)

\* the scanner after one more call of next_token, with the token it returned
Scanned(r, calls) == [sc |-> r.sc, tok |-> r.tok, calls |-> calls + 1]

\* scanner.next_token()
NextToken ==
    /\ status = "scanning"
    /\ scanner.calls < MaxCalls
    /\ IF next_token(source, scanner.sc).ok
       THEN scanner' = Scanned(next_token(source, scanner.sc), scanner.calls) /\ status' = status
       ELSE scanner' = scanner /\ status' = "panicked"
    /\ UNCHANGED <<source, ast, parser, bytecode, user_functions, stack, memory, pc, threads,
                   receivers, units, output, trace, runs>>

\* parse_expr(source)
ParseExpr ==
    /\ status = "source"
    /\ LET r == parse_expr(source)
       IN  /\ ast' = r.e
           /\ parser' = r.ps
           /\ status' = IF r.ok THEN "parsed" ELSE "panicked"
    /\ UNCHANGED <<source, scanner, bytecode, user_functions, stack, memory, pc, threads,
                   receivers, units, output, trace, runs>>

\* BytecodeCompiler::compile(&expr), then VM::new(bytecode) in VM::run
Compile ==
    /\ status = "parsed"
    /\ LET c == compile(ast)
       IN  IF c.ok
           THEN bytecode' = c.code /\ status' = "running"
           ELSE bytecode' = bytecode /\ status' = "panicked"
    /\ UNCHANGED <<pipe, user_functions, stack, memory, pc, threads,
                   receivers, units, output, trace, runs>>

\* the instructions that set pc to an operand or to a popped address
TransferOps == {"Jump", "JumpIfZero", "JumpIfNotZero", "Call", "Return"}

\* history: some jump, call or return of the run set pc past the last instruction
LeftProgram ==
    \E k \in 1..Len(trace) :
        /\ bytecode[trace[k].pc + 1].op \in TransferOps
        /\ (IF k < Len(trace) THEN trace[k + 1].pc ELSE pc) >= Len(bytecode)

\* a second VM::run, on the program of round 1 followed by X (on the same
\* program again when X is empty)
RunExtended(X) ==
    /\ round = 1
    /\ status \in {"returned", "panicked"}
    /\ ast = NoExpr /\ parser = NoParser /\ scanner = NoScanner
    /\ X = <<>> \/ (bytecode # <<>> /\ Top(bytecode) = Halt)
    /\ first' = [status |-> status, result |-> result, stayed |-> ~LeftProgram,
                 pcs |-> trace, stack |-> stack, memory |-> memory, len |-> Len(bytecode)]
    /\ round' = 2
    /\ bytecode' = bytecode \o X
    /\ stack' = <<>>
    /\ memory' = <<>>
    /\ pc' = 0
    /\ threads' = <<>>
    /\ receivers' = <<>>
    /\ status' = "running"
    /\ result' = PosZero
    /\ trace' = <<>>
    /\ UNCHANGED <<user_functions, units, output, pipe>>

Next ==
    \/ NextToken \/ ParseExpr \/ Compile
    \/ ExecNeg \/ ExecAdd \/ ExecSub \/ ExecMul \/ ExecDiv
    \/ ExecLoadConst \/ ExecLoadVar \/ ExecStoreVar
    \/ ExecJump \/ ExecJumpIfZero \/ ExecJumpIfNotZero
    \/ ExecPop \/ ExecDup \/ ExecCall \/ ExecReturn \/ ExecHalt
    \/ ExecSpawn \/ ExecSync \/ ExecBarrier
    \/ LoopExit \/ RunReturn
    \/ \E i \in 1..Len(units) : UnitSend(i)
    \/ \E X \in Extensions : RunExtended(X)

Spec == Init /\ [][Next]_vars

\* one turn of the loop of execute, or its exit
Execute ==
    \/ ExecNeg \/ ExecAdd \/ ExecSub \/ ExecMul \/ ExecDiv
    \/ ExecLoadConst \/ ExecLoadVar \/ ExecStoreVar
    \/ ExecJump \/ ExecJumpIfZero \/ ExecJumpIfNotZero
    \/ ExecPop \/ ExecDup \/ ExecCall \/ ExecReturn \/ ExecHalt
    \/ ExecSpawn \/ ExecSync \/ ExecBarrier
    \/ LoopExit

\* the operating system runs every spawned thread and the main thread: a
\* closure that can send does, and the loop takes the turn it can take
Fairness ==
    /\ WF_vars(\E i \in 1..Len(units) : UnitSend(i))
    /\ WF_vars(Execute)

SpecFair == Spec /\ Fairness

(***************************************************************************)
(* Properties.                                                             *)
(***************************************************************************)
\* the opcode of the k-th instruction executed in the current run
OpAt(k) == bytecode[trace[k].pc + 1].op

\* the instruction executed last, once one has been executed
LastOp == IF trace = <<>> THEN "none" ELSE OpAt(Len(trace))

\* the number of Spawn instructions executed after the last instruction whose
\* opcode is in stops, among the first k executed
RECURSIVE SpawnsSince(_, _)
SpawnsSince(k, stops) ==
    IF k = 0 THEN 0
    ELSE IF OpAt(k) \in stops THEN 0
    ELSE (IF OpAt(k) = "Spawn" THEN 1 ELSE 0) + SpawnsSince(k - 1, stops)

\* the step of execute that executes opcode o and moves on without a panic
Executes(o) == Running /\ Cur.op = o /\ trace' = Logged /\ status' = "running"

(***************************************************************************)
(* The conventional reading of an arithmetic source: a recursive descent   *)
(* over its tokens in which * and / bind tighter than + and -, unary minus *)
(* binds tighter than both, and equal precedence folds left to right.      *)
(***************************************************************************)
RECURSIVE Tokens(_, _), TokensAfter(_, _)
TokensAfter(inp, r) ==
    IF ~r.ok THEN <<Tok("Bad")>>
    ELSE IF r.tok = Eof THEN <<>>
    ELSE <<r.tok>> \o Tokens(inp, r.sc)

Tokens(inp, sc) == TokensAfter(inp, next_token(inp, sc))

Kind(toks, i) == IF i <= Len(toks) THEN toks[i].t ELSE "Eof"

Ref(v, i) == [ok |-> TRUE, v |-> v, i |-> i]

RefFail == [ok |-> FALSE, v |-> NaN, i |-> 0]

RECURSIVE RefSum(_, _), SumLoop(_, _), RefProduct(_, _), ProductLoop(_, _), RefUnary(_, _)

RefFold(op, l, r) ==
    IF ~r.ok THEN RefFail
    ELSE Ref(CASE op = "Plus" -> FAdd(l.v, r.v) [] op = "Minus" -> FSub(l.v, r.v)
               [] op = "Star" -> FMul(l.v, r.v) [] op = "Slash" -> FDiv(l.v, r.v), r.i)

RefNegate(r) == IF r.ok THEN Ref(FNeg(r.v), r.i) ELSE RefFail

RefClose(toks, r) ==
    IF r.ok /\ Kind(toks, r.i) = "RParen" THEN Ref(r.v, r.i + 1) ELSE RefFail

RefUnary(toks, i) ==
    IF Kind(toks, i) = "Minus" THEN RefNegate(RefUnary(toks, i + 1))
    ELSE IF Kind(toks, i) = "Number" THEN Ref(toks[i].n, i + 1)
    ELSE IF Kind(toks, i) = "LParen" THEN RefClose(toks, RefSum(toks, i + 1))
    ELSE RefFail

ProductLoop(toks, l) ==
    IF l.ok /\ Kind(toks, l.i) \in {"Star", "Slash"}
    THEN ProductLoop(toks, RefFold(Kind(toks, l.i), l, RefUnary(toks, l.i + 1)))
    ELSE l

RefProduct(toks, i) == ProductLoop(toks, RefUnary(toks, i))

SumLoop(toks, l) ==
    IF l.ok /\ Kind(toks, l.i) \in {"Plus", "Minus"}
    THEN SumLoop(toks, RefFold(Kind(toks, l.i), l, RefProduct(toks, l.i + 1)))
    ELSE l

RefSum(toks, i) == SumLoop(toks, RefProduct(toks, i))

RefWhole(toks, r) == IF r.ok /\ r.i = Len(toks) + 1 THEN r ELSE RefFail

Conventional(src) == RefWhole(Tokens(src, NewScanner(src)), RefSum(Tokens(src, NewScanner(src)), 1))

\* C1: the value VM::run returns for a well-formed arithmetic source is the
\* conventional value of the source (precedence, unary minus, left to right).
C1_ConventionalValue ==
    (status = "returned" /\ ast # NoExpr /\ Conventional(source).ok)
        => result = Conventional(source).v

\* C2: a Sync leaves exactly as many values on the stack as Spawn instructions
\* were executed since the most recent Sync or Barrier.
C2_SyncCount ==
    [][Executes("Sync") => Len(stack') = SpawnsSince(Len(trace), {"Sync", "Barrier"})]_vars

\* the values sampled by the last n units spawned, in spawn order
Sampled(n) == [i \in 1..n |-> units[Len(units) - n + i].val]

\* C3: whatever the order in which the units send, Sync pushes the values in the
\* order of their Spawn instructions, and the value of each is the top of the
\* stack its Spawn sampled.
C3_SyncOrder ==
    [][/\ Executes("Sync") => stack' = Sampled(SpawnsSince(Len(trace), {"Sync"}))
       /\ Executes("Spawn") =>
            /\ Len(units') = Len(units) + 1
            /\ units'[Len(units')].val = (IF stack = <<>> THEN PosZero ELSE Top(stack))
       /\ \A i \in 1..Len(units) : units'[i].val = units[i].val]_vars

\* two units sampled different values, sent in the reverse of their spawn order,
\* and the Sync has pushed their values
C3_Witness ==
    /\ LastOp = "Sync"
    /\ stack = <<F(1), F(2)>>
    /\ units[Len(units)].seq < units[Len(units) - 1].seq

\* the units spawned in the current run
RunUnits == { i \in 1..Len(units) : i > Len(units) - SpawnsSince(Len(trace), {}) }

\* C4: a Barrier leaves stack and memory as they were, and once pc has moved
\* past it every unit spawned before it has completed.
C4_BarrierFrame ==
    [][Executes("Barrier") =>
         /\ stack' = stack
         /\ memory' = memory
         /\ pc' = pc + 1
         /\ \A i \in RunUnits : units'[i].st # "spawned"]_vars

C4_Witness ==
    /\ LastOp = "Barrier"
    /\ status = "running"
    /\ stack = <<F(10)>>
    /\ units # <<>> /\ units[Len(units)].st = "sent"

\* C5 as stated: the program followed by X returns what the program returns.
C5_HaltIdempotent ==
    (round = 2 /\ status = "returned" /\ first.status = "returned")
        => result = first.result

\* C5 amended: the program followed by X returns what the program returns when no
\* jump, call or return of the program's run sets pc past its last instruction.
C5_HaltIdempotentInRange ==
    (round = 2 /\ status = "returned" /\ first.status = "returned" /\ first.stayed)
        => result = first.result

C5_Witness ==
    /\ round = 2 /\ status = "returned" /\ first.status = "returned" /\ first.stayed
    /\ Len(bytecode) > 4 /\ bytecode[Len(bytecode)] = LoadConst(F(99))
    /\ result = F(5)

\* the step of execute that executes opcode o, whatever its outcome
Step(o) == Running /\ Cur.op = o /\ trace' = Logged

\* the Call instructions executed so far that entered a user function
EnteredCalls ==
    { k \in 1..Len(trace) :
        /\ OpAt(k) = "Call"
        /\ bytecode[trace[k].pc + 1].name \in DOMAIN user_functions
        /\ bytecode[trace[k].pc + 1].name \notin native_functions }

\* Return with one result above the return address that call k pushed
ReturnsFrom(k) ==
    /\ Step("Return")
    /\ Len(stack) = trace[k].depth + 2
    /\ stack[trace[k].depth + 1] = AsF64(trace[k].pc + 1)

\* Return resumes after call k with the result in place of the return address
Resumed(k) ==
    /\ pc' = trace[k].pc + 1
    /\ Len(stack') = trace[k].depth + 1
    /\ stack' = Append(SubSeq(stack, 1, trace[k].depth), Top(stack))
    /\ status' = "running"

\* C6 as stated: a Call of a registered user function pushes pc+1 and enters the
\* function, and the Return of its one result resumes after the Call.
C6_CallReturn ==
    [][/\ (Step("Call") /\ Cur.name \in DOMAIN user_functions) =>
            stack' = Append(stack, F(pc + 1)) /\ pc' = user_functions[Cur.name]
       /\ \A k \in EnteredCalls : ReturnsFrom(k) => Resumed(k)]_vars

\* C6 amended: a Call of a registered user function whose name is not also a
\* native function pushes pc+1 and enters the function, and the Return of its
\* one result resumes after the Call.
C6_CallReturnNotNative ==
    [][/\ (Step("Call") /\ Cur.name \in DOMAIN user_functions /\ Cur.name \notin native_functions) =>
            stack' = Append(stack, F(pc + 1)) /\ pc' = user_functions[Cur.name]
       /\ \A k \in EnteredCalls : ReturnsFrom(k) => Resumed(k)]_vars

C6_Witness ==
    /\ LastOp = "Return"
    /\ status = "running"
    /\ pc = 3
    /\ stack = <<F(11)>>
    /\ EnteredCalls # {}

\* C7: a Call of a name that is neither native nor a user function leaves stack
\* and memory as they were, advances pc by one and does not abort the run.
C7_UnknownCall ==
    [][(Step("Call") /\ Cur.name \notin native_functions /\ Cur.name \notin DOMAIN user_functions) =>
         /\ stack' = stack
         /\ memory' = memory
         /\ pc' = pc + 1
         /\ status' = "running"]_vars

C7_Witness ==
    /\ LastOp = "Call"
    /\ bytecode[trace[Len(trace)].pc + 1].name \notin native_functions \cup DOMAIN user_functions
    /\ bytecode[trace[Len(trace)].pc + 1].argc > 0
    /\ status = "running"
    /\ pc = trace[Len(trace)].pc + 1
    /\ stack # <<>>

\* some StoreVar(i) executed so far has written slot i
Written(i) ==
    \E k \in 1..Len(trace) :
        /\ OpAt(k) = "StoreVar"
        /\ bytecode[trace[k].pc + 1].index = i
        /\ trace[k].depth >= 1

\* the run aborts: no value is pushed and nothing executes afterwards
Aborts == status' = "panicked" /\ pc' = pc /\ Len(stack') <= Len(stack)

\* C8: LoadVar of a slot no StoreVar has written, arithmetic on fewer than two
\* values and Neg on none abort the run; an aborted run executes nothing more,
\* pushes nothing and returns nothing.
C8_FatalFaults ==
    [][/\ (Step("LoadVar") /\ ~Written(Cur.index)) => Aborts
       /\ \A o \in {"Add", "Sub", "Mul", "Div"} : (Step(o) /\ Len(stack) < 2) => Aborts
       /\ (Step("Neg") /\ stack = <<>>) => Aborts
       /\ (status = "panicked" /\ round' = round) =>
            /\ status' = "panicked"
            /\ <<stack, pc, trace, result, memory>>' = <<stack, pc, trace, result, memory>>]_vars

C8_Witness ==
    /\ status = "panicked"
    /\ LastOp = "LoadVar"
    /\ stack # <<>>
    /\ memory # <<>>

\* the number of stack values the instruction at pc reads
Needs ==
    CASE Cur.op \in {"Add", "Sub", "Mul", "Div", "Return"} -> 2
      [] Cur.op \in {"Neg", "StoreVar", "Dup", "JumpIfZero", "JumpIfNotZero", "Spawn"} -> 1
      [] Cur.op = "Call" /\ Cur.name \in native_functions -> Cur.argc
      [] OTHER -> 0

\* C9: an instruction that needs more values than the stack holds aborts the
\* run and no default stands in for the missing value; Pop on an empty stack
\* only advances pc.
C9_UnderflowFatal ==
    [][/\ (Running /\ trace' = Logged /\ Len(stack) < Needs) => status' = "panicked"
       /\ (Step("Pop") /\ stack = <<>>) => (stack' = <<>> /\ pc' = pc + 1 /\ status' = "running")]_vars

\* C10: the run stops only at a Halt or with pc past the last instruction, the
\* stack as it is, and it returns the top of that stack, or 0.0 when it is
\* empty.
C10_RunResult ==
    [][/\ (status = "running" /\ status' = "stopped") =>
            /\ pc >= Len(bytecode) \/ Cur.op = "Halt"
            /\ stack' = stack
       /\ (Running /\ Cur.op = "Halt" /\ <<pc, stack, status>>' # <<pc, stack, status>>) =>
            status' = "stopped"
       /\ (status = "stopped" /\ status' = "returned") =>
            result' = (IF stack = <<>> THEN PosZero ELSE stack[Len(stack)])]_vars

C10_Witness ==
    /\ status = "returned"
    /\ round = 1
    /\ result = F(2)
    /\ stack = <<F(1)>>

(***************************************************************************)
(* Properties of the parser: the tokens of the source, scanned one by one, *)
(* against the Expr and the lookahead parse_expr ends with.                *)
(***************************************************************************)
Toks == Tokens(source, NewScanner(source))

\* the i-th token of the source, Eof past the last one
LookAt(i) == IF i <= Len(Toks) THEN Toks[i] ELSE Eof

IsOperand(tok) == tok.t \in {"Number", "Identifier"}

\* the Expr of a one-token operand
Operand(tok) == IF tok.t = "Number" THEN Number(tok.n) ELSE Ident(tok.name)

BinaryTokens == {"Plus", "Minus", "Star", "Slash"}

SamePower(o1, o2) ==
    \/ o1 \in {"Plus", "Minus"} /\ o2 \in {"Plus", "Minus"}
    \/ o1 \in {"Star", "Slash"} /\ o2 \in {"Star", "Slash"}

\* parse_expr has been called on the source
ParseCalled == status \notin {"source", "scanning"} /\ source # <<>>

\* C11: for tokens a op1 b op2 c with op1 and op2 of equal binding power, the
\* parser returns BinaryOp(BinaryOp(a, op1, b), op2, c).
C11_LeftAssociative ==
    (/\ ParseCalled
     /\ Len(Toks) = 5
     /\ IsOperand(Toks[1]) /\ IsOperand(Toks[3]) /\ IsOperand(Toks[5])
     /\ SamePower(Toks[2].t, Toks[4].t))
        => ast = BinaryOp(BinaryOp(Operand(Toks[1]), Toks[2].t, Operand(Toks[3])),
                          Toks[4].t, Operand(Toks[5]))

\* C12: the tokens - x op y parse to BinaryOp(UnaryOp(Minus, x), op, y) for every
\* binary operator op.
C12_UnaryBindsTighter ==
    (/\ ParseCalled
     /\ Len(Toks) = 4
     /\ Toks[1].t = "Minus" /\ IsOperand(Toks[2])
     /\ Toks[3].t \in BinaryTokens /\ IsOperand(Toks[4]))
        => ast = BinaryOp(UnaryOp("Minus", Operand(Toks[2])), Toks[3].t, Operand(Toks[4]))

C12_Witness ==
    /\ status = "parsed"
    /\ Len(Toks) = 4
    /\ ast = BinaryOp(UnaryOp("Minus", Number(F(8))), "Star", Number(F(4)))

\* C13: when the token after a complete operand is not a binary operator, expr
\* returns the operand unchanged and leaves that token as the lookahead, also at
\* min_bp = 0.
C13_LoopStops ==
    (/\ ParseCalled
     /\ IsOperand(LookAt(1))
     /\ LookAt(2).t \notin BinaryTokens \cup {"Bad"}
     /\ ~(LookAt(1).t = "Identifier" /\ LookAt(2).t = "LParen"))
        => /\ status # "panicked"
           /\ ast = Operand(LookAt(1))
           /\ parser.current = LookAt(2)

\* the nesting depth of parentheses after the first k tokens
RECURSIVE Depth(_)
Depth(k) ==
    IF k = 0 THEN 0
    ELSE Depth(k - 1) + (CASE Toks[k].t = "LParen" -> 1 [] Toks[k].t = "RParen" -> -1 [] OTHER -> 0)

\* the source misses a closing parenthesis, starts with a token that cannot
\* start an expression, closes a parenthesis it never opened, or holds a
\* character the scanner does not recognise
Malformed ==
    \/ Depth(Len(Toks)) > 0
    \/ LookAt(1).t \notin {"Number", "Identifier", "Minus", "LParen"}
    \/ \E k \in 1..Len(Toks) : Depth(k) < 0
    \/ \E k \in 1..Len(Toks) : Toks[k].t = "Bad"

\* C14: parse_expr returns no Expr for a source that is not one well-formed
\* expression.
C14_ParseFailsFatally ==
    (ParseCalled /\ Malformed) => (status = "panicked" /\ ast = NoExpr)

\* C15: once next_token has returned Eof, every later call returns Eof again and
\* leaves the position of the scanner where it was.
C15_EofForever ==
    [][(status = "scanning" /\ scanner.tok = Eof /\ scanner' # scanner) =>
         /\ scanner'.calls = scanner.calls + 1
         /\ scanner'.tok = Eof
         /\ scanner'.sc.pos = scanner.sc.pos
         /\ status' = "scanning"]_vars

C15_Witness ==
    /\ status = "scanning"
    /\ scanner.tok = Eof
    /\ Len(Toks) >= 5
    /\ scanner.calls >= Len(Toks) + 3
    /\ scanner.sc.pos = Len(source)

\* C16: the instruction sequence compile returns has Halt as its last
\* instruction and at no earlier index.
C16_HaltLastOnly ==
    [][(status = "parsed" /\ status' = "running") =>
         /\ bytecode' # <<>>
         /\ bytecode'[Len(bytecode')] = Halt
         /\ \A k \in 1..(Len(bytecode') - 1) : bytecode'[k] # Halt]_vars

C16_Witness ==
    /\ status = "running" /\ trace = <<>>
    /\ ast # NoExpr /\ ast.t = "BinaryOp"
    /\ Len(bytecode) >= 6
    /\ bytecode[Len(bytecode)] = Halt

\* the tree is built from Number, UnaryOp(Minus) and BinaryOp over + - * /
RECURSIVE IsArithmetic(_)
IsArithmetic(e) ==
    CASE e.t = "Number" -> TRUE
      [] e.t = "UnaryOp" -> e.op = "Minus" /\ IsArithmetic(e.rhs)
      [] e.t = "BinaryOp" -> e.op \in BinaryTokens /\ IsArithmetic(e.lhs) /\ IsArithmetic(e.rhs)
      [] OTHER -> FALSE

\* the value of the tree, bottom-up
RECURSIVE Value(_)
Value(e) ==
    CASE e.t = "Number" -> e.n
      [] e.t = "UnaryOp" -> FNeg(Value(e.rhs))
      [] e.t = "BinaryOp" /\ e.op = "Plus" -> FAdd(Value(e.lhs), Value(e.rhs))
      [] e.t = "BinaryOp" /\ e.op = "Minus" -> FSub(Value(e.lhs), Value(e.rhs))
      [] e.t = "BinaryOp" /\ e.op = "Star" -> FMul(Value(e.lhs), Value(e.rhs))
      [] e.t = "BinaryOp" /\ e.op = "Slash" -> FDiv(Value(e.lhs), Value(e.rhs))

\* C17: running the code compiled from an arithmetic tree returns the value of
\* the tree evaluated bottom-up, the left subtree being the left operand.
C17_FaithfulToTree ==
    (status \in {"stopped", "returned", "panicked"} /\ bytecode # <<>> /\ IsArithmetic(ast))
        => /\ status # "panicked"
           /\ status = "stopped" => stack = <<Value(ast)>>
           /\ status = "returned" => result = Value(ast)

C17_Witness ==
    /\ status = "returned"
    /\ ast.t = "BinaryOp" /\ ast.op = "Slash"
    /\ ast.lhs.t = "BinaryOp" /\ ast.lhs.op = "Minus"
    /\ result = F(2) /\ Value(ast) = F(2)

C19_SyncClears ==
    [][/\ Executes("Sync") =>
            /\ Len(stack') = Len(receivers)
            /\ \A k \in 1..Len(receivers) : stack'[k] = units[receivers[k]].buf[1]
            /\ (threads = <<>> /\ receivers = <<>>) => stack' = <<>>
       /\ (Step("Sync") /\ status' = "panicked") => stack' = <<>>]_vars

C19_Witness ==
    /\ LastOp = "Sync"
    /\ status = "running"
    /\ trace[Len(trace)].depth = 2
    /\ units = <<>>
    /\ stack = <<>>

\* C20: JumpIfZero and JumpIfNotZero leave the stack as it is and set pc to the
\* target exactly when the top is zero (non-zero), to pc + 1 otherwise; Jump sets
\* pc to its target and changes nothing else.
C20_JumpFrame ==
    [][/\ (Step("JumpIfZero") \/ Step("JumpIfNotZero")) =>
            <<stack, memory, threads, receivers, units, output>>' =
                <<stack, memory, threads, receivers, units, output>>
       /\ (Step("JumpIfZero") /\ stack # <<>>) =>
            /\ pc' = (IF Top(stack) \in {PosZero, NegZero} THEN Cur.target ELSE pc + 1)
            /\ status' = "running"
       /\ (Step("JumpIfNotZero") /\ stack # <<>>) =>
            /\ pc' = (IF Top(stack) \in {PosZero, NegZero} THEN pc + 1 ELSE Cur.target)
            /\ status' = "running"
       /\ Step("Jump") =>
            /\ pc' = Cur.target
            /\ <<stack, memory, threads, receivers, units, output, status>>' =
                  <<stack, memory, threads, receivers, units, output, status>>]_vars

C20_Witness ==
    /\ LastOp = "JumpIfZero"
    /\ status = "running"
    /\ stack = <<NegZero>>
    /\ pc = 4

\* C21: with pc at or past the length of the program the run ends without a
\* fault and without executing anything more, the stack as it was; a run that
\* does not abort ends at a Halt or with pc past the end only.
C21_PastEndStops ==
    [][/\ (/\ status = "running" /\ pc >= Len(bytecode)
           /\ <<stack, pc, status, trace, memory, output, result>>' #
                 <<stack, pc, status, trace, memory, output, result>>) =>
            /\ status' = "stopped"
            /\ <<stack, pc, trace, memory, output, result>>' =
                  <<stack, pc, trace, memory, output, result>>
       /\ (status = "running" /\ status' = "stopped") =>
            pc >= Len(bytecode) \/ Cur.op = "Halt"]_vars

C21_Witness ==
    /\ status = "stopped"
    /\ pc >= Len(bytecode)
    /\ LastOp = "Return"
    /\ stack = <<F(5)>>

\* C22: a Call of a name that is both a native and a user function invokes
\* the native function, pushes no return address and adds one to pc; the entry
\* address is used when no native function has the name.
C22_NativeFirst ==
    [][/\ (Step("Call") /\ Cur.name \in native_functions /\ Cur.name \in DOMAIN user_functions) =>
            /\ pc' = pc + 1
            /\ Len(output') = Len(output) + 1
            /\ output'[Len(output')].text = Cur.name
            /\ Len(stack') <= Len(stack) + 1
            /\ stack'[Len(stack')] = PosZero
            /\ Cur.argc >= 1 => Len(stack') <= Len(stack)
       /\ (Step("Call") /\ Cur.name \notin native_functions /\ Cur.name \in DOMAIN user_functions) =>
            /\ pc' = user_functions[Cur.name]
            /\ output' = output]_vars

C22_Witness ==
    /\ LastOp = "Call"
    /\ "print" \in DOMAIN user_functions
    /\ pc = 2
    /\ stack = <<PosZero>>
    /\ Len(output) = 1 /\ output[1].args = <<F(1)>>

\* C23: a native Call with at least argc values on the stack pops exactly argc
\* values, passes them first pushed first, pushes the one result above the
\* untouched rest and adds one to pc.
C23_NativeCall ==
    [][(Step("Call") /\ Cur.name \in native_functions /\ Len(stack) >= Cur.argc) =>
         /\ Len(stack') = Len(stack) + 1 - Cur.argc
         /\ SubSeq(stack', 1, Len(stack) - Cur.argc) = SubSeq(stack, 1, Len(stack) - Cur.argc)
         /\ output' = Append(output, [text |-> Cur.name,
                                      args |-> SubSeq(stack, Len(stack) - Cur.argc + 1, Len(stack))])
         /\ pc' = pc + 1
         /\ status' = "running"]_vars

C23_Witness ==
    /\ LastOp = "Call"
    /\ stack = <<F(1), PosZero>>
    /\ output = <<[text |-> "print", args |-> <<F(2), F(3)>>]>>
    /\ pc = 4

\* the source is name(d1,...,dk): a one-letter name and k >= 0 one-digit arguments
ArgChars == SubSeq(source, 3, Len(source) - 1)

IsCallSource ==
    /\ Len(source) >= 3
    /\ source[1] \in Letters /\ source[2] = "(" /\ source[Len(source)] = ")"
    /\ ArgChars = <<>> \/ Len(ArgChars) % 2 = 1
    /\ \A i \in 1..Len(ArgChars) : IF i % 2 = 1 THEN ArgChars[i] \in Digits ELSE ArgChars[i] = ","

ArgExprs == [i \in 1..((Len(ArgChars) + 1) \div 2) |-> Number(F(DigitValue(ArgChars[2 * i - 1])))]

\* C24: name(e1, ..., ek) parses to Call(name, [e1, ..., ek]) for every k >= 0,
\* and the token after the closing ) is the lookahead.
C24_CallArguments ==
    (ParseCalled /\ IsCallSource)
        => /\ ast = CallExpr(source[1], ArgExprs)
           /\ parser.current = Eof

\* the user calls that have not returned after the first k instructions executed
RECURSIVE OpenCalls(_)
AfterStep(k, open) ==
    IF k \in EnteredCalls THEN Append(open, k)
    ELSE IF OpAt(k) = "Return" /\ trace[k].depth >= 2 /\ open # <<>> THEN Front(open)
    ELSE open

OpenCalls(k) == IF k = 0 THEN <<>> ELSE AfterStep(k, OpenCalls(k - 1))

\* the user calls that have not returned yet, outermost first
OpenNow == OpenCalls(Len(trace))

\* the body of the innermost open call c has pushed one result above the return
\* address of c
OneResultAbove(open) ==
    /\ open # <<>>
    /\ ReturnsFrom(Top(open))

\* C25: a Return whose body pushed one result above its return address resumes
\* after the most recent Call that has not returned, and leaves the stack one
\* deeper than before that Call, at every nesting depth.
C25_ReturnsLifo ==
    [][OneResultAbove(OpenNow) =>
         /\ Resumed(Top(OpenNow))
         /\ OpenNow' = Front(OpenNow)]_vars

C25_Witness ==
    /\ LastOp = "Return"
    /\ status = "running"
    /\ Cardinality(EnteredCalls) = 3
    /\ OpenNow = <<>>
    /\ pc = 1
    /\ stack = <<F(1)>>

\* the second run is a run of the very program of the first
SameProgram == round = 2 /\ Len(bytecode) = first.len

\* C26: two runs of one program, whatever the interleaving of the spawned
\* units in each, go through the same pc values and end alike, with the same
\* stack, memory and returned value.
C26_ScheduleIndependent ==
    SameProgram =>
        /\ Len(trace) <= Len(first.pcs)
        /\ \A k \in 1..Len(trace) : trace[k] = first.pcs[k]
        /\ status \in {"returned", "panicked"} =>
             /\ status = first.status
             /\ trace = first.pcs
             /\ stack = first.stack
             /\ memory = first.memory
             /\ result = first.result

C26_Witness ==
    /\ SameProgram
    /\ status = "returned"
    /\ Len(units) = 4
    /\ units[1].seq < units[2].seq
    /\ units[4].seq < units[3].seq
    /\ stack = <<F(1)>> /\ result = F(2)

\* the main loop is at a Sync or a Barrier, n instructions into run r
AtRendezvous(r, n) ==
    /\ round = r /\ Len(trace) = n
    /\ Running /\ Cur.op \in {"Sync", "Barrier"}

\* the rendezvous that was instruction n + 1 of run r has completed
PastRendezvous(r, n) ==
    /\ round = r /\ Len(trace) >= n + 1
    /\ bytecode[trace[n + 1].pc + 1].op \in {"Sync", "Barrier"}
    /\ (IF Len(trace) > n + 1 THEN trace[n + 2].pc ELSE pc) = trace[n + 1].pc + 1

\* C27: with the spawned units scheduled fairly, every Sync and every Barrier
\* the main loop reaches completes, and pc moves past it.
C27_RendezvousCompletes ==
    \A r \in 1..2 : \A n \in 0..(MaxSteps - 1) : AtRendezvous(r, n) ~> PastRendezvous(r, n)

C27_Witness ==
    /\ LastOp = "Sync"
    /\ Len(trace) = 6 /\ OpAt(3) = "Barrier"
    /\ status = "running" /\ pc = 6
    /\ stack = <<F(10), F(7)>>

\* C28: every spawned unit delivers its value: no unit ever fails on its send,
\* not even one still in flight when the run ends without a Sync or a Barrier.
C28_SendSucceeds == \A i \in 1..Len(units) : units[i].st # "failed"

\* the program being run was compiled from an arithmetic tree
Arithmetic == bytecode # <<>> /\ ast # NoExpr /\ IsArithmetic(ast)

\* the number of stack values an arithmetic instruction pops
Operands(o) ==
    CASE o \in {"Add", "Sub", "Mul", "Div"} -> 2
      [] o = "Neg" -> 1
      [] OTHER -> 0

\* C29: a program compiled from a tree of Number, UnaryOp(Minus) and BinaryOp
\* over + - * / terminates: pc grows by one at each step, no instruction finds
\* fewer values than it pops, the run stops at the final Halt, and the stack
\* holds exactly one value there.
C29_CompiledTerminates ==
    /\ [](Arithmetic =>
            /\ status # "panicked"
            /\ \A k \in 1..Len(trace) :
                 trace[k].pc = k - 1 /\ Operands(OpAt(k)) <= trace[k].depth
            /\ status = "running" => pc = Len(trace) /\ pc < Len(bytecode)
            /\ status = "stopped" =>
                 /\ pc = Len(trace) /\ pc = Len(bytecode) - 1
                 /\ Cur = Halt
                 /\ Len(stack) = 1)
    /\ (Arithmetic /\ status = "running") ~> (Arithmetic /\ status = "stopped")

C29_Witness ==
    /\ Arithmetic /\ status = "stopped"
    /\ ast.t = "BinaryOp" /\ ast.rhs.t = "UnaryOp"
    /\ Len(bytecode) >= 5 /\ pc = Len(bytecode) - 1
    /\ Len(stack) = 1

====
